---- MODULE Spec2Model ----
(***************************************************************************)
(* Model of the Bring! integration: BringClient (bring_client.py),         *)
(* BringIntegration (bring_integration.py) and the CLI entry point         *)
(* (bring_cli.py).                                                         *)
(*                                                                         *)
(* Every coroutine of the Python code is modelled as an operator that maps *)
(* the object state to the SET of its possible outcomes (one per result of *)
(* the remote calls it awaits).  An outcome carries the object state       *)
(* afterwards, the returned value and the raised exception, if any.        *)
(*                                                                         *)
(* Spec calls the API sequentially, CliSpec runs main() of the CLI,        *)
(* BatchSpec calls add_items with every list of items, and ConcSpec lets   *)
(* several asyncio tasks interleave inside BringClient.get_lists.          *)
(***************************************************************************)
EXTENDS Integers, Sequences, FiniteSets, TLC

\* ---------------------------------------------------------------- bounds
MaxCatalog == 2
MaxItems == 2
NumTasks == 2

\* ------------------------------------------------- Python values
\* Optional[T]: None is the empty tuple, a present value x is <<x>>.
None == <<>>
Some(x) == <<x>>
Value(opt) == opt[1]

\* Strings that take part in comparisons are sequences of characters.
EmptyStr == <<>>

\* bool(x) of an Optional[str]: None and "" are falsy.
Truthy(opt) == opt # None /\ Value(opt) # EmptyStr

\* str.lower(), character by character.
LowerChar(c) ==
    CASE c = "A" -> "a"
      [] c = "B" -> "b"
      [] OTHER -> c

lower(s) == [i \in 1..Len(s) |-> LowerChar(s[i])]

\* ------------------------------------------------- data of the service
\* Vendor-assigned list identifiers (non-empty strings).
Uuids == {<<"a", "1">>, <<"b", "2">>, <<"c", "3">>}

\* Names of the lists of the account, as the service returns them.
ListNames == {<<"A", "b">>, <<"b">>}

\* Names a caller may pass: one that matches up to case, an exact one,
\* an unknown one, and "".
CallerNames == {<<"a", "b">>, <<"b">>, <<"a">>, EmptyStr}

\* Optional[str] list_name arguments.
ListNameArgs == {None} \cup {Some(n) : n \in CallerNames}

Entries == [listUuid : Uuids, name : ListNames]

UniqueUuids(c) == \A i, j \in 1..Len(c) : c[i].listUuid = c[j].listUuid => i = j

\* The catalogs the service can return: identifiers are unique.
Catalogs ==
    {c \in UNION {[1..n -> Entries] : n \in 0..MaxCatalog} : UniqueUuids(c)}

\* The response of load_lists: a dict that may lack the "lists" key.
Responses == {None} \cup {Some(c) : c \in Catalogs}

\* response.get("lists", [])
ResponseGetLists(response) == IF response = None THEN <<>> ELSE Value(response)

\* ------------------------------------------------- exceptions, outcomes
NoExc == [type |-> "none", kind |-> "none", arg |-> None]
TransportError == [type |-> "Exception", kind |-> "Transport", arg |-> None]
ConfigError == [type |-> "ValueError", kind |-> "Credentials", arg |-> None]
NoDefaultError == [type |-> "ValueError", kind |-> "NoDefault", arg |-> None]
ListNotFound(list_name) ==
    [type |-> "ValueError", kind |-> "ListNotFound", arg |-> Some(list_name)]

Ok(o, ret) == [o |-> o, ret |-> Some(ret), exc |-> NoExc]
Raise(o, e) == [o |-> o, ret |-> None, exc |-> e]

\* Sequencing of awaits: an exception of the first part propagates.
Then(outcomes, rest(_)) ==
    UNION {IF r.exc = NoExc THEN rest(r) ELSE {r} : r \in outcomes}

\* ------------------------------------------------- the remote service
\* One remote call of the bring-api object: it is recorded with its
\* argument, the login state of the session it is issued on, and its
\* result (None when it raised).
CallWith(o, op, arg, items, result) ==
    [o EXCEPT !.calls = Append(@, [op |-> op, arg |-> arg, items |-> items,
                                   authed |-> o.logged_in, result |-> result])]
Call(o, op, arg, result) == CallWith(o, op, arg, None, result)

\* await self.bring.login(): succeeds or raises.
bring_login(o) ==
    {Ok([Call(o, "login", None, Some(TRUE)) EXCEPT !.logged_in = TRUE], None),
     Raise(Call(o, "login", None, None), TransportError)}

\* await self.bring.load_lists(): any response of the service, or raises.
bring_load_lists(o) ==
    {Ok(Call(o, "load_lists", None, Some(response)), response) : response \in Responses}
        \cup {Raise(Call(o, "load_lists", None, None), TransportError)}

\* get_list, save_item, complete_item, remove_item, batch_update_list.
bring_item_op(o, op, list_uuid) ==
    {Ok(Call(o, op, Some(list_uuid), Some(TRUE)), TRUE),
     Raise(Call(o, op, Some(list_uuid), None), TransportError)}

\* await self.bring.batch_update_list(list_uuid, items, ADD).
bring_batch_update_list(o, list_uuid, items) ==
    {Ok(CallWith(o, "batch_update_list", Some(list_uuid), Some(items), Some(TRUE)), TRUE),
     Raise(CallWith(o, "batch_update_list", Some(list_uuid), Some(items), None),
           TransportError)}

\* ------------------------------------------------- BringClient
\* The fields of a BringClient right after BringClient(email, password).
NewClient(o) ==
    [o EXCEPT !.client = TRUE, !.session = FALSE, !.bring = FALSE,
              !.logged_in = FALSE, !.lists_cache = None]

connect(o) ==
    IF ~o.session
    THEN LET o1 == [o EXCEPT !.session = TRUE,
                             !.open_sessions = @ + 1,
                             !.bring = TRUE,
                             !.logged_in = FALSE]
         IN bring_login(o1)
    ELSE {Ok(o, None)}

\* Variant: disconnecting also forgets the cached catalog.
disconnect_clearcache(o) ==
    IF o.session
    THEN {Ok([o EXCEPT !.open_sessions = @ - 1,
                       !.session = FALSE,
                       !.bring = FALSE,
                       !.logged_in = FALSE,
                       !.lists_cache = None], None)}
    ELSE {Ok(o, None)}

disconnect(o) ==
    IF o.session
    THEN {Ok([o EXCEPT !.open_sessions = @ - 1,
                       !.session = FALSE,
                       !.bring = FALSE,
                       !.logged_in = FALSE], None)}
    ELSE {Ok(o, None)}

\* if not self.bring: await self.connect()
EnsureBring(o) == IF ~o.bring THEN connect(o) ELSE {Ok(o, None)}

\* Variant: the cache test is "not self._lists_cache", so an empty cached
\* catalog is fetched again.
client_get_lists_falsy(o, force_refresh) ==
    Then(EnsureBring(o), LAMBDA r :
        IF r.o.lists_cache = None \/ Value(r.o.lists_cache) = <<>> \/ force_refresh
        THEN Then(bring_load_lists(r.o), LAMBDA q :
                 LET o2 == [q.o EXCEPT !.lists_cache = Some(ResponseGetLists(Value(q.ret)))]
                 IN {Ok(o2, Value(o2.lists_cache))})
        ELSE {Ok(r.o, Value(r.o.lists_cache))})

\* Variant: a fetched catalog is appended to the cached one.
client_get_lists_merge(o, force_refresh) ==
    Then(EnsureBring(o), LAMBDA r :
        IF r.o.lists_cache = None \/ force_refresh
        THEN Then(bring_load_lists(r.o), LAMBDA q :
                 LET old == IF q.o.lists_cache = None THEN <<>> ELSE Value(q.o.lists_cache)
                     o2 == [q.o EXCEPT !.lists_cache =
                                           Some(old \o ResponseGetLists(Value(q.ret)))]
                 IN {Ok(o2, Value(o2.lists_cache))})
        ELSE {Ok(r.o, Value(r.o.lists_cache))})

\* Variant: a load_lists call that raises is tried once more.
client_get_lists_retry(o, force_refresh) ==
    Then(EnsureBring(o), LAMBDA r :
        IF r.o.lists_cache = None \/ force_refresh
        THEN LET store(q) ==
                     LET o2 == [q.o EXCEPT !.lists_cache =
                                              Some(ResponseGetLists(Value(q.ret)))]
                     IN {Ok(o2, Value(o2.lists_cache))}
             IN UNION {IF q.exc = NoExc THEN store(q)
                       ELSE Then(bring_load_lists(q.o), store) :
                          q \in bring_load_lists(r.o)}
        ELSE {Ok(r.o, Value(r.o.lists_cache))})

\* Variant: a refresh empties the cache before it fetches.
client_get_lists_clearfirst(o, force_refresh) ==
    Then(EnsureBring(o), LAMBDA r :
        IF r.o.lists_cache = None \/ force_refresh
        THEN Then(bring_load_lists([r.o EXCEPT !.lists_cache = None]), LAMBDA q :
                 LET o2 == [q.o EXCEPT !.lists_cache = Some(ResponseGetLists(Value(q.ret)))]
                 IN {Ok(o2, Value(o2.lists_cache))})
        ELSE {Ok(r.o, Value(r.o.lists_cache))})

client_get_lists(o, force_refresh) ==
    Then(EnsureBring(o), LAMBDA r :
        IF r.o.lists_cache = None \/ force_refresh
        THEN Then(bring_load_lists(r.o), LAMBDA q :
                 LET o2 == [q.o EXCEPT !.lists_cache = Some(ResponseGetLists(Value(q.ret)))]
                 IN {Ok(o2, Value(o2.lists_cache))})
        ELSE {Ok(r.o, Value(r.o.lists_cache))})

\* Variant: the names are compared without lower().
RECURSIVE FirstMatchExact(_, _, _)
FirstMatchExact(lists, name, i) ==
    IF i > Len(lists) THEN None
    ELSE IF lists[i].name = name THEN Some(lists[i])
    ELSE FirstMatchExact(lists, name, i + 1)

\* The loop of get_list_by_name over lists[i..]: the first match, or None.
RECURSIVE FirstMatch(_, _, _)
FirstMatch(lists, name, i) ==
    IF i > Len(lists) THEN None
    ELSE IF lower(lists[i].name) = lower(name) THEN Some(lists[i])
    ELSE FirstMatch(lists, name, i + 1)

get_list_by_name(o, name) ==
    Then(client_get_lists(o, FALSE), LAMBDA r :
        {Ok(r.o, FirstMatch(Value(r.ret), name, 1))})

\* get_items, add_item, complete_item, remove_item, batch_add_items of the
\* client: connect if needed, then one remote call on the list.
client_item_op(o, op, list_uuid) ==
    Then(EnsureBring(o), LAMBDA r : bring_item_op(r.o, op, list_uuid))

batch_add_items(o, list_uuid, items) ==
    Then(EnsureBring(o), LAMBDA r : bring_batch_update_list(r.o, list_uuid, items))

\* ------------------------------------------------- BringIntegration
\* __init__: email or os.getenv("BRING_EMAIL"), likewise the password;
\* raises ValueError when either is missing or empty, else creates the
\* object with client = None and no default list.
PyOr(a, b) == IF Truthy(a) THEN a ELSE b

\* Variant: the test is "not self.email and not self.password".
CredentialsMissing_both(email, password, envEmail, envPassword) ==
    ~Truthy(PyOr(email, envEmail)) /\ ~Truthy(PyOr(password, envPassword))

CredentialsMissing(email, password, envEmail, envPassword) ==
    ~Truthy(PyOr(email, envEmail)) \/ ~Truthy(PyOr(password, envPassword))

\* integration.client = None: the client object and its fields are gone.
DropClient(o) ==
    [o EXCEPT !.client = FALSE, !.session = FALSE, !.bring = FALSE,
              !.logged_in = FALSE, !.lists_cache = None]

initialize(o) ==
    IF ~o.client THEN connect(NewClient(o)) ELSE {Ok(o, None)}

\* Variant: cleanup also forgets the default list.
cleanup_resetdefault(o) ==
    IF o.client
    THEN Then(disconnect(o), LAMBDA r :
             {Ok([DropClient(r.o) EXCEPT !.default_list_uuid = None], None)})
    ELSE {Ok(o, None)}

cleanup(o) ==
    IF o.client
    THEN Then(disconnect(o), LAMBDA r : {Ok(DropClient(r.o), None)})
    ELSE {Ok(o, None)}

get_lists(o) ==
    Then(initialize(o), LAMBDA r : client_get_lists(r.o, FALSE))

find_list(o, name) ==
    Then(initialize(o), LAMBDA r : get_list_by_name(r.o, name))

\* Variant: a name that is not found resets the default.
set_default_list_reset(o, name) ==
    Then(find_list(o, name), LAMBDA r :
        LET lst == Value(r.ret)
        IN IF lst # None
           THEN {Ok([r.o EXCEPT !.default_list_uuid = Some(Value(lst).listUuid)], TRUE)}
           ELSE {Ok([r.o EXCEPT !.default_list_uuid = None], FALSE)})

set_default_list(o, name) ==
    Then(find_list(o, name), LAMBDA r :
        LET lst == Value(r.ret)
        IN IF lst # None
           THEN {Ok([r.o EXCEPT !.default_list_uuid = Some(Value(lst).listUuid)], TRUE)}
           ELSE {Ok(r.o, FALSE)})

\* Variant: without a default, the empty identifier is returned instead of
\* raising.
_get_list_uuid_noraise(o, list_name) ==
    IF Truthy(list_name) THEN {Ok(o, Value(list_name))}
    ELSE IF Truthy(o.default_list_uuid) THEN {Ok(o, Value(o.default_list_uuid))}
    ELSE {Ok(o, EmptyStr)}

_get_list_uuid(o, list_name) ==
    IF Truthy(list_name) THEN {Ok(o, Value(list_name))}
    ELSE IF Truthy(o.default_list_uuid) THEN {Ok(o, Value(o.default_list_uuid))}
    ELSE {Raise(o, NoDefaultError)}

\* Variant: a name that is not found falls back to the default list.
ResolveListUuid_fallback(o, list_name) ==
    IF Truthy(list_name)
    THEN Then(find_list(o, Value(list_name)), LAMBDA r :
             LET lst == Value(r.ret)
             IN IF lst = None
                THEN _get_list_uuid(r.o, None)
                ELSE {Ok(r.o, Value(lst).listUuid)})
    ELSE _get_list_uuid(o, None)

\* Variant: the name goes through _get_list_uuid(list_name), which hands it
\* back as if it were the identifier.
ResolveListUuid_byname(o, list_name) == _get_list_uuid(o, list_name)

\* The resolution block every item operation starts with:
\* a given name goes through find_list, no name through _get_list_uuid().
ResolveListUuid(o, list_name) ==
    IF Truthy(list_name)
    THEN Then(find_list(o, Value(list_name)), LAMBDA r :
             LET lst == Value(r.ret)
             IN IF lst = None
                THEN {Raise(r.o, ListNotFound(Value(list_name)))}
                ELSE {Ok(r.o, Value(lst).listUuid)})
    ELSE _get_list_uuid(o, None)

\* initialize, resolve, then delegate to the client.
ItemOperation(o, op, list_name) ==
    Then(initialize(o), LAMBDA r :
        Then(ResolveListUuid(r.o, list_name), LAMBDA q :
            client_item_op(q.o, op, Value(q.ret))))

get_items(o, list_name) == ItemOperation(o, "get_list", list_name)
add_item(o, list_name) == ItemOperation(o, "save_item", list_name)

\* The items a caller passes to add_items: a str, a dict (an absent key is
\* None), or a value that is neither.
StrItem(s) ==
    [type |-> "str", value |-> Some(s), name |-> None, itemId |-> None,
     spec |-> None, specification |-> None]
DictItem(name, itemId, spec, specification) ==
    [type |-> "dict", value |-> None, name |-> name, itemId |-> itemId,
     spec |-> spec, specification |-> specification]
OtherItem ==
    [type |-> "other", value |-> None, name |-> None, itemId |-> None,
     spec |-> None, specification |-> None]
Items ==
    {StrItem(<<"m">>),
     DictItem(Some(<<"n">>), Some(<<"i">>), Some(<<"s">>), Some(<<"t">>)),
     DictItem(None, Some(<<"i">>), None, Some(<<"t">>)),
     DictItem(None, None, None, None),
     OtherItem}
ItemLists == UNION {[1..n -> Items] : n \in 0..MaxItems}
\* What the command line and the examples pass: names only.
NameLists == {<<StrItem(<<"m">>)>>}

\* d.get(key, default) on an absent-or-present key.
DictGet(present, default) == IF present # None THEN present ELSE default

\* Variant: a dict's itemId key wins over its name key.
FormatItem_itemIdFirst(item) ==
    IF item.type = "str"
    THEN <<[itemId |-> item.value, spec |-> None]>>
    ELSE IF item.type = "dict"
    THEN <<[itemId |-> DictGet(item.itemId, item.name),
            spec |-> DictGet(item.spec, DictGet(item.specification, Some(EmptyStr)))]>>
    ELSE <<>>

\* One turn of the formatting loop: what it appends for the item (an entry
\* without a spec key has spec None; an itemId of None is Python's None).
FormatItem(item) ==
    IF item.type = "str"
    THEN <<[itemId |-> item.value, spec |-> None]>>
    ELSE IF item.type = "dict"
    THEN <<[itemId |-> DictGet(item.name, item.itemId),
            spec |-> DictGet(item.spec, DictGet(item.specification, Some(EmptyStr)))]>>
    ELSE <<>>

RECURSIVE FormatLoop(_, _, _)
FormatLoop(items, k, formatted_items) ==
    IF k > Len(items) THEN formatted_items
    ELSE FormatLoop(items, k + 1, formatted_items \o FormatItem(items[k]))

add_items(o, items, list_name) ==
    Then(initialize(o), LAMBDA r :
        Then(ResolveListUuid(r.o, list_name), LAMBDA q :
            batch_add_items(q.o, Value(q.ret), FormatLoop(items, 1, <<>>))))
complete_item(o, list_name) == ItemOperation(o, "complete_item", list_name)
remove_item(o, list_name) == ItemOperation(o, "remove_item", list_name)

format_list_summary(o, list_name) ==
    Then(get_items(o, list_name), LAMBDA r :
        IF Truthy(list_name)
        THEN Then(find_list(r.o, Value(list_name)), LAMBDA q : {Ok(q.o, TRUE)})
        ELSE Then(get_lists(r.o), LAMBDA q : {Ok(q.o, TRUE)}))

\* Credential values: absent, empty, or given.
Credentials == {None, Some(EmptyStr), Some(<<"x">>)}

\* The fields of a BringIntegration right after a successful __init__.
NewIntegration ==
    [client |-> FALSE, session |-> FALSE, bring |-> FALSE, logged_in |-> FALSE,
     lists_cache |-> None, default_list_uuid |-> None,
     open_sessions |-> 0, calls |-> <<>>]

BringIntegrationInit(email, password, envEmail, envPassword) ==
    IF CredentialsMissing(email, password, envEmail, envPassword)
    THEN {Raise(NewIntegration, ConfigError)}
    ELSE {Ok(NewIntegration, None)}

\* ------------------------------------------------- state
VARIABLES
    constructed,        \* "no", "yes", or "failed" (__init__ raised)
    client,             \* BringIntegration.client is not None
    session,            \* BringClient.session is not None
    bring,              \* BringClient.bring is not None
    logged_in,          \* bring.login() has completed on this session
    lists_cache,        \* BringClient._lists_cache
    default_list_uuid,  \* BringIntegration._default_list_uuid
    open_sessions,      \* ClientSession objects created and not closed
    last,               \* the last call: operation, arguments, outcome
    unforced_loads,     \* load_lists calls of the client since its creation,
                        \* its last forced refresh or its last remote failure
    selected,           \* identifier of the list that the last successful
                        \* set_default_list call matched, None before
    pc,                 \* position of the CLI's main()
    argv,               \* parsed command line
    exit_status,        \* process exit status, -1 while running
    printed,            \* message printed by main's handlers
    raised,             \* the exception that left the async-with block
    escaped,            \* an exception left main() uncaught
    task,               \* per asyncio task inside BringClient.get_lists: the
                        \* await it is suspended at, and its force_refresh
    fetches,            \* load_lists calls issued by the tasks
    last_response,      \* the catalog of the load_lists response that
                        \* arrived last, None before
    overwritten         \* a response replaced a different cached catalog

objvars == <<client, session, bring, logged_in, lists_cache,
             default_list_uuid, open_sessions>>
clivars == <<pc, argv, exit_status, printed, raised, escaped>>
taskvars == <<task, fetches, last_response, overwritten>>
vars == <<constructed, objvars, last, unforced_loads, selected, clivars, taskvars>>

\* The object as the operators see it, at the start of a call.
Obj ==
    [client |-> client, session |-> session, bring |-> bring,
     logged_in |-> logged_in, lists_cache |-> lists_cache,
     default_list_uuid |-> default_list_uuid,
     open_sessions |-> open_sessions, calls |-> <<>>]

\* Case-insensitive equality of two names, letter by letter.
SameLetter(c, d) == c = d \/ {c, d} = {"a", "A"} \/ {c, d} = {"b", "B"}
EqualIgnoringCase(s, t) ==
    Len(s) = Len(t) /\ \A i \in 1..Len(s) : SameLetter(s[i], t[i])

\* Positions of the catalog entries whose name is n up to case.
MatchIndexes(catalog, n) ==
    {i \in DOMAIN catalog : EqualIgnoringCase(catalog[i].name, n)}
Least(S) == CHOOSE i \in S : \A j \in S : i <= j

CountLoads(calls) == Cardinality({i \in DOMAIN calls : calls[i].op = "load_lists"})

Tasks == 1..NumTasks

\* No task has called get_lists.
NoTasks ==
    /\ task = [t \in Tasks |-> [pc |-> "idle", force |-> FALSE]]
    /\ fetches = 0
    /\ last_response = None
    /\ overwritten = FALSE

NoCall == [op |-> "none", args |-> <<>>, name |-> None, force |-> FALSE,
           ret |-> None, exc |-> NoExc, calls |-> <<>>]

\* The state after a call with outcome r.
Commit(op, args, name, force, r) ==
    /\ client' = r.o.client
    /\ session' = r.o.session
    /\ bring' = r.o.bring
    /\ logged_in' = r.o.logged_in
    /\ lists_cache' = r.o.lists_cache
    /\ default_list_uuid' = r.o.default_list_uuid
    /\ open_sessions' = r.o.open_sessions
    /\ last' = [op |-> op, args |-> args, name |-> name, force |-> force,
                ret |-> r.ret, exc |-> r.exc, calls |-> r.o.calls]
    /\ selected' =
          IF op = "set_default_list" /\ r.ret = Some(TRUE)
          THEN LET catalog == Value(r.o.lists_cache)
                   M == MatchIndexes(catalog, Value(name))
               IN IF M = {} THEN None ELSE Some(catalog[Least(M)].listUuid)
          ELSE selected
    /\ unforced_loads' =
          IF force \/ r.exc.kind = "Transport" \/ ~r.o.client THEN 0
          ELSE (IF client THEN unforced_loads ELSE 0) + CountLoads(r.o.calls)

Init ==
    /\ constructed = "no"
    /\ client = FALSE
    /\ session = FALSE
    /\ bring = FALSE
    /\ logged_in = FALSE
    /\ lists_cache = None
    /\ default_list_uuid = None
    /\ open_sessions = 0
    /\ last = NoCall
    /\ unforced_loads = 0
    /\ selected = None
    /\ pc = "idle"
    /\ argv = [command |-> "none", list_name |-> EmptyStr, verbose |-> FALSE]
    /\ exit_status = -1
    /\ printed = "none"
    /\ raised = NoExc
    /\ escaped = FALSE
    /\ NoTasks

\* ------------------------------------------------- calls of the API
\* The API is called sequentially: a call starts once the caller has taken
\* the outcome of the previous one.
Idle == pc = "idle" /\ last.op = "none"

Construct ==
    /\ constructed # "yes"
    /\ Idle
    /\ \E email \in Credentials, password \in Credentials,
          envEmail \in Credentials, envPassword \in Credentials :
         \E r \in BringIntegrationInit(email, password, envEmail, envPassword) :
            /\ constructed' = IF r.exc = NoExc THEN "yes" ELSE "failed"
            /\ Commit("__init__", <<email, password, envEmail, envPassword>>,
                      None, FALSE, r)
    /\ UNCHANGED <<clivars, taskvars>>

Live == constructed = "yes" /\ Idle

\* One call of the API with one of its outcomes.
Perform(op, name, force, outcomes) ==
    /\ \E r \in outcomes : Commit(op, <<>>, name, force, r)
    /\ UNCHANGED <<constructed, clivars, taskvars>>

Initialize ==
    /\ Live
    /\ Perform("initialize", None, FALSE, initialize(Obj))

Cleanup ==
    /\ Live
    /\ Perform("cleanup", None, FALSE, cleanup(Obj))

GetLists ==
    /\ Live
    /\ Perform("get_lists", None, FALSE, get_lists(Obj))

FindList ==
    /\ Live
    /\ \E n \in CallerNames : Perform("find_list", Some(n), FALSE, find_list(Obj, n))

SetDefaultList ==
    /\ Live
    /\ \E n \in CallerNames :
         Perform("set_default_list", Some(n), FALSE, set_default_list(Obj, n))

GetItems ==
    /\ Live
    /\ \E ln \in ListNameArgs : Perform("get_items", ln, FALSE, get_items(Obj, ln))

AddItem ==
    /\ Live
    /\ \E ln \in ListNameArgs : Perform("add_item", ln, FALSE, add_item(Obj, ln))

AddItems ==
    /\ Live
    /\ \E items \in NameLists, ln \in ListNameArgs :
         Perform("add_items", ln, FALSE, add_items(Obj, items, ln))

CompleteItem ==
    /\ Live
    /\ \E ln \in ListNameArgs :
         Perform("complete_item", ln, FALSE, complete_item(Obj, ln))

RemoveItem ==
    /\ Live
    /\ \E ln \in ListNameArgs : Perform("remove_item", ln, FALSE, remove_item(Obj, ln))

FormatListSummary ==
    /\ Live
    /\ \E ln \in ListNameArgs :
         Perform("format_list_summary", ln, FALSE, format_list_summary(Obj, ln))

\* Calls made directly on integration.client, a BringClient.
ClientConnect ==
    /\ Live /\ client
    /\ Perform("client.connect", None, FALSE, connect(Obj))

ClientDisconnect ==
    /\ Live /\ client
    /\ Perform("client.disconnect", None, FALSE, disconnect(Obj))

ClientGetLists ==
    /\ Live /\ client
    /\ \E force \in BOOLEAN :
         Perform("client.get_lists", None, force, client_get_lists(Obj, force))

ClientGetListByName ==
    /\ Live /\ client
    /\ \E n \in CallerNames :
         Perform("client.get_list_by_name", Some(n), FALSE, get_list_by_name(Obj, n))

\* The caller takes the outcome of the call (returned value or exception).
Return ==
    /\ pc = "idle"
    /\ last.op # "none"
    /\ last' = NoCall
    /\ UNCHANGED <<constructed, objvars, unforced_loads, selected, clivars, taskvars>>

Next ==
    \/ Construct
    \/ Return
    \/ Initialize
    \/ Cleanup
    \/ GetLists
    \/ FindList
    \/ SetDefaultList
    \/ GetItems
    \/ AddItem
    \/ AddItems
    \/ CompleteItem
    \/ RemoveItem
    \/ FormatListSummary
    \/ ClientConnect
    \/ ClientDisconnect
    \/ ClientGetLists
    \/ ClientGetListByName

Spec == Init /\ [][Next]_vars

\* ------------------------------------------------- batches
\* An object that has been constructed; add_items is called with every
\* list of items, on the default list (there is none) or on a list by name.
BatchNames == {None, Some(<<"b">>)}

BatchInit ==
    /\ constructed = "yes"
    /\ client = FALSE
    /\ session = FALSE
    /\ bring = FALSE
    /\ logged_in = FALSE
    /\ lists_cache = None
    /\ default_list_uuid = None
    /\ open_sessions = 0
    /\ last = NoCall
    /\ unforced_loads = 0
    /\ selected = None
    /\ pc = "idle"
    /\ argv = [command |-> "none", list_name |-> EmptyStr, verbose |-> FALSE]
    /\ exit_status = -1
    /\ printed = "none"
    /\ raised = NoExc
    /\ escaped = FALSE
    /\ NoTasks

BatchAddItems ==
    /\ Live
    /\ \E items \in ItemLists, ln \in BatchNames :
         \E r \in add_items(Obj, items, ln) : Commit("add_items", <<items>>, ln, FALSE, r)
    /\ UNCHANGED <<constructed, clivars, taskvars>>

BatchNext ==
    \/ BatchAddItems
    \/ Return

BatchSpec == BatchInit /\ [][BatchNext]_vars

\* ------------------------------------------------- concurrent tasks
\* Several asyncio tasks call get_lists on one BringClient.  A task runs
\* without interruption from one await to the next; it is suspended at
\* "await self.bring.login()" or at "await self.bring.load_lists()".
ConcInit ==
    /\ constructed = "yes"
    /\ client = TRUE
    /\ session = FALSE
    /\ bring = FALSE
    /\ logged_in = FALSE
    /\ lists_cache = None
    /\ default_list_uuid = None
    /\ open_sessions = 0
    /\ last = NoCall
    /\ unforced_loads = 0
    /\ selected = None
    /\ pc = "idle"
    /\ argv = [command |-> "none", list_name |-> EmptyStr, verbose |-> FALSE]
    /\ exit_status = -1
    /\ printed = "none"
    /\ raised = NoExc
    /\ escaped = FALSE
    /\ NoTasks

\* Variant: a response is stored only while the cache is still absent.
StoreLists_keepfirst(cache, lists) == IF cache = None THEN Some(lists) ELSE cache

\* self._lists_cache = response.get("lists", [])
StoreLists(cache, lists) == Some(lists)

\* if self._lists_cache is None or force_refresh: the task issues
\* load_lists and is suspended; else it returns the cache.
CheckCache(t, force, cache) ==
    IF cache = None \/ force
    THEN /\ task' = [task EXCEPT ![t] = [pc |-> "load", force |-> force]]
         /\ fetches' = fetches + 1
    ELSE /\ task' = [task EXCEPT ![t] = [pc |-> "done", force |-> force]]
         /\ fetches' = fetches

\* A task calls get_lists(force_refresh) and runs to its first await.
TaskGetLists(t) ==
    /\ task[t].pc = "idle"
    /\ \E force \in BOOLEAN :
         IF ~bring /\ ~session
         THEN /\ session' = TRUE
              /\ open_sessions' = open_sessions + 1
              /\ bring' = TRUE
              /\ logged_in' = FALSE
              /\ task' = [task EXCEPT ![t] = [pc |-> "login", force |-> force]]
              /\ UNCHANGED fetches
         ELSE /\ CheckCache(t, force, lists_cache)
              /\ UNCHANGED <<session, open_sessions, bring, logged_in>>
    /\ UNCHANGED <<constructed, client, lists_cache, default_list_uuid, last,
                   unforced_loads, selected, clivars, last_response, overwritten>>

\* await self.bring.login() ends: the task goes on to the cache test, or
\* the exception ends its call.
TaskLoginDone(t) ==
    /\ task[t].pc = "login"
    /\ \/ /\ logged_in' = TRUE
          /\ CheckCache(t, task[t].force, lists_cache)
       \/ /\ task' = [task EXCEPT ![t].pc = "failed"]
          /\ UNCHANGED <<logged_in, fetches>>
    /\ UNCHANGED <<constructed, client, session, bring, lists_cache,
                   default_list_uuid, open_sessions, last, unforced_loads,
                   selected, clivars, last_response, overwritten>>

\* await self.bring.load_lists() ends: the task stores the response and
\* returns, or the exception ends its call.
TaskLoadDone(t) ==
    /\ task[t].pc = "load"
    /\ \/ \E response \in Responses :
            LET lists == ResponseGetLists(response)
            IN /\ lists_cache' = StoreLists(lists_cache, lists)
               /\ last_response' = Some(lists)
               /\ overwritten' =
                     (overwritten \/ (lists_cache # None /\ lists_cache' # lists_cache))
               /\ task' = [task EXCEPT ![t].pc = "done"]
       \/ /\ task' = [task EXCEPT ![t].pc = "failed"]
          /\ UNCHANGED <<lists_cache, last_response, overwritten>>
    /\ UNCHANGED <<constructed, client, session, bring, logged_in,
                   default_list_uuid, open_sessions, last, unforced_loads,
                   selected, clivars, fetches>>

ConcNext ==
    \/ \E t \in Tasks : TaskGetLists(t)
    \/ \E t \in Tasks : TaskLoginDone(t)
    \/ \E t \in Tasks : TaskLoadDone(t)

ConcSpec == ConcInit /\ [][ConcNext]_vars

TypeOK ==
    /\ constructed \in {"no", "yes", "failed"}
    /\ client \in BOOLEAN /\ session \in BOOLEAN
    /\ bring \in BOOLEAN /\ logged_in \in BOOLEAN
    /\ lists_cache \in {None} \cup {Some(c) : c \in Catalogs}
    /\ default_list_uuid \in {None} \cup {Some(u) : u \in Uuids}
    /\ open_sessions \in 0..1
    /\ pc \in {"idle", "start", "body", "exit", "done"}
    /\ exit_status \in {-1, 0, 1}
    /\ task \in [Tasks -> [pc : {"idle", "login", "load", "done", "failed"},
                            force : BOOLEAN]]
    /\ fetches \in 0..NumTasks
    /\ overwritten \in BOOLEAN

\* ------------------------------------------------- the CLI (bring_cli.py)
Commands == {"lists", "show", "add", "complete", "remove", "batch"}

\* The parsed command lines: list_name is a positional string argument
\* (possibly ""), absent for the lists command.
CommandLines ==
    {a \in [command : Commands \cup {"none"}, list_name : CallerNames,
             verbose : BOOLEAN] :
        a.command \in {"lists", "none"} => a.list_name = EmptyStr}

SystemExit == [type |-> "SystemExit", kind |-> "exit1", arg |-> None]

\* if success: print(...) else: print(...); sys.exit(1)
ExitUnlessSuccess(outcomes) ==
    Then(outcomes, LAMBDA r :
        IF Value(r.ret) = TRUE THEN {Ok(r.o, None)} ELSE {Raise(r.o, SystemExit)})

\* The branch of main's if/elif chain for the command, cmd_* included.
RunCommand(o, a) ==
    CASE a.command = "lists" -> Then(get_lists(o), LAMBDA r : {Ok(r.o, None)})
      [] a.command = "show" ->
            Then(format_list_summary(o, Some(a.list_name)), LAMBDA r : {Ok(r.o, None)})
      [] a.command = "add" -> ExitUnlessSuccess(add_item(o, Some(a.list_name)))
      [] a.command = "complete" -> ExitUnlessSuccess(complete_item(o, Some(a.list_name)))
      [] a.command = "remove" -> ExitUnlessSuccess(remove_item(o, Some(a.list_name)))
      [] a.command = "batch" ->
            UNION {ExitUnlessSuccess(add_items(o, items, Some(a.list_name))) :
                      items \in NameLists}

\* Variant: "if args.verbose: raise" sits in the ValueError clause too.
MainHandler_reraise(exc, verbose) ==
    IF exc = NoExc
    THEN [printed |-> "none", exit_status |-> 0, escaped |-> FALSE]
    ELSE IF exc.type = "SystemExit"
    THEN [printed |-> "none", exit_status |-> 1, escaped |-> FALSE]
    ELSE IF verbose
    THEN [printed |-> IF exc.type = "ValueError" THEN "Error" ELSE "Unexpected error",
          exit_status |-> 1, escaped |-> TRUE]
    ELSE [printed |-> IF exc.type = "ValueError" THEN "Error" ELSE "Unexpected error",
          exit_status |-> 1, escaped |-> FALSE]

\* The except clauses of main and the end of the process.
MainHandler(exc, verbose) ==
    IF exc = NoExc
    THEN [printed |-> "none", exit_status |-> 0, escaped |-> FALSE]
    ELSE IF exc.type = "SystemExit"
    THEN [printed |-> "none", exit_status |-> 1, escaped |-> FALSE]
    ELSE IF exc.type = "ValueError"
    THEN [printed |-> "Error", exit_status |-> 1, escaped |-> FALSE]
    ELSE IF verbose
    THEN [printed |-> "Unexpected error", exit_status |-> 1, escaped |-> TRUE]
    ELSE [printed |-> "Unexpected error", exit_status |-> 1, escaped |-> FALSE]

Finish(exc) ==
    LET h == MainHandler(exc, argv.verbose)
    IN /\ pc' = "done"
       /\ raised' = exc
       /\ printed' = h.printed
       /\ exit_status' = h.exit_status
       /\ escaped' = h.escaped

CliInit ==
    /\ constructed = "no"
    /\ client = FALSE
    /\ session = FALSE
    /\ bring = FALSE
    /\ logged_in = FALSE
    /\ lists_cache = None
    /\ default_list_uuid = None
    /\ open_sessions = 0
    /\ last = NoCall
    /\ unforced_loads = 0
    /\ selected = None
    /\ pc = "start"
    /\ argv \in CommandLines
    /\ exit_status = -1
    /\ printed = "none"
    /\ raised = NoExc
    /\ escaped = FALSE
    /\ NoTasks

\* async with BringIntegration() as bring: the constructor, then
\* __aenter__.  When either raises, __aexit__ is not run: the exception
\* goes straight to main's except clauses.
\* if not args.command: parser.print_help(); sys.exit(1)
CliNoCommand ==
    /\ pc = "start"
    /\ argv.command = "none"
    /\ pc' = "done"
    /\ printed' = "help"
    /\ exit_status' = 1
    /\ UNCHANGED <<constructed, objvars, last, unforced_loads, selected,
                   argv, raised, escaped, taskvars>>

CliEnter ==
    /\ pc = "start"
    /\ argv.command # "none"
    /\ \E envEmail \in Credentials, envPassword \in Credentials :
         \E c \in BringIntegrationInit(None, None, envEmail, envPassword) :
            /\ constructed' = IF c.exc = NoExc THEN "yes" ELSE "failed"
            /\ \E r \in Then({c}, LAMBDA q : initialize(q.o)) :
                 /\ Commit("__aenter__", <<None, None, envEmail, envPassword>>,
                           None, FALSE, r)
                 /\ IF r.exc = NoExc
                    THEN /\ pc' = "body"
                         /\ UNCHANGED <<exit_status, printed, raised, escaped>>
                    ELSE Finish(r.exc)
    /\ UNCHANGED <<argv, taskvars>>

\* The body of the async-with block.
CliCommand ==
    /\ pc = "body"
    /\ \E r \in RunCommand(Obj, argv) :
         /\ Commit(argv.command, <<>>, Some(argv.list_name), FALSE, r)
         /\ raised' = r.exc
    /\ pc' = "exit"
    /\ UNCHANGED <<constructed, argv, exit_status, printed, escaped, taskvars>>

\* __aexit__ (cleanup), then main's except clauses.
CliExit ==
    /\ pc = "exit"
    /\ \E r \in cleanup(Obj) :
         /\ Commit("__aexit__", <<>>, None, FALSE, r)
         /\ Finish(IF r.exc = NoExc THEN raised ELSE r.exc)
    /\ UNCHANGED <<constructed, argv, taskvars>>

CliNext ==
    \/ CliNoCommand
    \/ CliEnter
    \/ CliCommand
    \/ CliExit

CliSpec == CliInit /\ [][CliNext]_vars

\* ------------------------------------------------- properties
ItemOps == {"get_items", "add_item", "add_items", "complete_item", "remove_item"}
RemoteItemOps ==
    {"get_list", "save_item", "batch_update_list", "complete_item", "remove_item"}
ItemCalls(calls) == {i \in DOMAIN calls : calls[i].op \in RemoteItemOps}
AllCallsOk(calls) == \A i \in DOMAIN calls : calls[i].result # None
UnforcedGetLists(call) == call.op \in {"client.get_lists", "get_lists"} /\ ~call.force

\* C1: between the creation of a client, its forced refreshes and its remote
\* failures, the calls that do not force a refresh issue at most one
\* load_lists in total, whatever catalog was returned.
C1_AtMostOneUnforcedLoad == unforced_loads <= 1

\* A lookup on a client that has already cached the empty catalog.
C1_Witness ==
    /\ last.op = "client.get_list_by_name"
    /\ last.exc = NoExc
    /\ last.calls = <<>>
    /\ lists_cache = Some(<<>>)
    /\ unforced_loads = 1

\* C2 as stated: get_lists(force_refresh=False) answers from the cache only
\* when the cache is present and non-empty; with the cache absent or empty
\* it issues load_lists, replaces the cache and returns the new value.
C2_Original ==
    [][(UnforcedGetLists(last') /\ AllCallsOk(last'.calls)) =>
         IF lists_cache # None /\ Value(lists_cache) # <<>>
         THEN /\ CountLoads(last'.calls) = 0
              /\ last'.ret = Some(Value(lists_cache))
         ELSE /\ CountLoads(last'.calls) = 1
              /\ lists_cache' # None
              /\ last'.ret = Some(Value(lists_cache'))]_vars

\* C2 amended: get_lists(force_refresh=False) answers from the cache, with
\* no load_lists call and the cache untouched, whenever the cache is present
\* (empty or not; a client that is not connected logs in first); only with
\* the cache absent it issues load_lists and, when the remote calls succeed,
\* replaces the cache with the result and returns the new value.
C2_Amended ==
    [][UnforcedGetLists(last') =>
         IF lists_cache # None
         THEN /\ CountLoads(last'.calls) = 0
              /\ lists_cache' = lists_cache
              /\ AllCallsOk(last'.calls) => last'.ret = Some(Value(lists_cache))
         ELSE AllCallsOk(last'.calls) =>
                 /\ CountLoads(last'.calls) = 1
                 /\ lists_cache' =
                       Some(ResponseGetLists(Value(last'.calls[Len(last'.calls)].result)))
                 /\ last'.ret = Some(Value(lists_cache'))]_vars

\* get_lists() answered from a cached empty catalog.
C2_Witness ==
    /\ last.op = "client.get_lists"
    /\ ~last.force
    /\ last.calls = <<>>
    /\ lists_cache = Some(<<>>)
    /\ last.ret = Some(<<>>)

\* C3: get_lists(force_refresh=True) on a connected client issues exactly
\* one load_lists call and no other; when it succeeds the cache is exactly
\* the returned catalog, and that value is returned.
C3_ForcedRefresh ==
    [][(last'.op = "client.get_lists" /\ last'.force /\ bring) =>
         /\ Len(last'.calls) = 1
         /\ last'.calls[1].op = "load_lists"
         /\ last'.calls[1].result # None =>
               /\ last'.exc = NoExc
               /\ lists_cache' =
                     Some(ResponseGetLists(Value(last'.calls[1].result)))
               /\ last'.ret = Some(Value(lists_cache'))]_vars

\* A forced refresh on a connected client that brought a one-entry catalog.
C3_Witness ==
    /\ last.op = "client.get_lists"
    /\ last.force
    /\ last.exc = NoExc
    /\ Len(last.calls) = 1
    /\ Len(Value(lists_cache)) = 1

\* C4: find_list(n) and get_list_by_name(n) return an entry iff an entry of
\* the catalog has the name n up to case, and then the first such entry in
\* catalog order.
C4_FirstMatchIgnoringCase ==
    (last.op \in {"find_list", "client.get_list_by_name"} /\ last.exc = NoExc) =>
        LET catalog == Value(lists_cache)
            M == MatchIndexes(catalog, Value(last.name))
        IN IF M = {}
           THEN last.ret = Some(None)
           ELSE last.ret = Some(Some(catalog[Least(M)]))

\* Two entries match a name written in another case: the first is returned.
C4_Witness ==
    /\ last.op = "find_list"
    /\ last.exc = NoExc
    /\ last.name = Some(<<"a", "b">>)
    /\ Len(Value(lists_cache)) = 2
    /\ Cardinality(MatchIndexes(Value(lists_cache), <<"a", "b">>)) = 2
    /\ last.ret = Some(Some(Value(lists_cache)[1]))

\* C5: set_default_list(n) returns True and stores the identifier of the
\* matched entry iff the catalog has an entry named n up to case; otherwise
\* (False, or an exception) the stored default is what it was.
C5_SetDefault ==
    [][last'.op = "set_default_list" =>
         IF last'.exc # NoExc
         THEN default_list_uuid' = default_list_uuid
         ELSE LET catalog == Value(lists_cache')
                  M == MatchIndexes(catalog, Value(last'.name))
              IN IF M = {}
                 THEN /\ last'.ret = Some(FALSE)
                      /\ default_list_uuid' = default_list_uuid
                 ELSE /\ last'.ret = Some(TRUE)
                      /\ default_list_uuid' = Some(catalog[Least(M)].listUuid)]_vars

\* set_default_list returned False while a default was set: it is kept.
C5_Witness ==
    /\ last.op = "set_default_list"
    /\ last.ret = Some(FALSE)
    /\ default_list_uuid # None

\* C6 as stated: an item operation called with no list name fails with the
\* no-default error and issues no remote item call as long as no
\* set_default_list call has succeeded; afterwards its item call carries
\* the identifier of the list that set_default_list matched.
C6_Original ==
    (last.op \in ItemOps /\ last.name = None) =>
        IF selected = None
        THEN last.exc = NoDefaultError /\ ItemCalls(last.calls) = {}
        ELSE /\ \A i \in ItemCalls(last.calls) : last.calls[i].arg = selected
             /\ last.exc = NoExc => Cardinality(ItemCalls(last.calls)) = 1

\* C6 amended: the same, except that on an object that is not connected the
\* operation logs in first, and a login that fails ends the operation with
\* that failure (still with no remote item call).
C6_Amended ==
    (last.op \in ItemOps /\ last.name = None) =>
        IF selected = None
        THEN /\ ItemCalls(last.calls) = {}
             /\ AllCallsOk(last.calls) => last.exc = NoDefaultError
             /\ ~AllCallsOk(last.calls) => last.exc = TransportError
        ELSE /\ \A i \in ItemCalls(last.calls) : last.calls[i].arg = selected
             /\ AllCallsOk(last.calls) =>
                   /\ last.exc = NoExc
                   /\ Cardinality(ItemCalls(last.calls)) = 1

\* After set_default_list matched list a1, add_item with no name saved the
\* item on a1.
C6_Witness ==
    /\ last.op = "add_item"
    /\ last.name = None
    /\ last.exc = NoExc
    /\ selected = Some(<<"a", "1">>)
    /\ \E i \in ItemCalls(last.calls) :
          last.calls[i].op = "save_item" /\ last.calls[i].arg = Some(<<"a", "1">>)

\* C7 as stated: an item operation called with a list name that matches no
\* entry of the catalog fails with list-not-found for that name, whatever
\* the default is, issues no remote item call and leaves the default alone.
C7_Original ==
    [][(/\ last'.op \in ItemOps
        /\ last'.name # None
        /\ AllCallsOk(last'.calls)
        /\ lists_cache' # None
        /\ MatchIndexes(Value(lists_cache'), Value(last'.name)) = {}) =>
         /\ last'.exc = ListNotFound(Value(last'.name))
         /\ ItemCalls(last'.calls) = {}
         /\ default_list_uuid' = default_list_uuid]_vars

\* C7 amended: the same for a non-empty list name; the empty string counts
\* as no list name.
C7_Amended ==
    [][(/\ last'.op \in ItemOps
        /\ last'.name # None
        /\ Value(last'.name) # EmptyStr
        /\ AllCallsOk(last'.calls)
        /\ lists_cache' # None
        /\ MatchIndexes(Value(lists_cache'), Value(last'.name)) = {}) =>
         /\ last'.exc = ListNotFound(Value(last'.name))
         /\ ItemCalls(last'.calls) = {}
         /\ default_list_uuid' = default_list_uuid]_vars

\* remove_item on an unknown list while a default list is set.
C7_Witness ==
    /\ last.op = "remove_item"
    /\ last.name = Some(<<"a">>)
    /\ last.exc = ListNotFound(<<"a">>)
    /\ default_list_uuid # None
    /\ Len(Value(lists_cache)) = 2

\* C8: when main() has ended, every session that was opened has been closed.
C8_SessionsClosed == pc = "done" => open_sessions = 0

\* A credential is given when passed non-empty, or else present and
\* non-empty in the environment.
Given(arg, env) ==
    \/ arg # None /\ Value(arg) # EmptyStr
    \/ env # None /\ Value(env) # EmptyStr

\* C9: the constructor raises the configuration error iff the email or the
\* password is not given, and then no client, session or remote call
\* exists; otherwise it succeeds, also without client or remote call.
C9_Constructor ==
    last.op = "__init__" =>
        /\ last.exc = ConfigError <=>
              ~(Given(last.args[1], last.args[3]) /\ Given(last.args[2], last.args[4]))
        /\ last.exc = ConfigError => constructed = "failed"
        /\ last.exc # ConfigError => last.exc = NoExc /\ constructed = "yes"
        /\ ~client /\ ~session /\ open_sessions = 0 /\ last.calls = <<>>

\* The email comes from the environment, the password is passed empty and
\* the environment has none.
C9_Witness ==
    /\ last.op = "__init__"
    /\ last.args = <<None, Some(EmptyStr), Some(<<"x">>), None>>
    /\ last.exc = ConfigError
    /\ constructed = "failed"

\* C10: when a command ends with list-not-found or no-default, main prints
\* the error, exits with status 1 without an uncaught exception, verbose
\* or not, and the session has been cleaned up.
C10_ResolutionErrorExit ==
    (pc = "done" /\ raised.kind \in {"ListNotFound", "NoDefault"}) =>
        /\ printed = "Error"
        /\ exit_status = 1
        /\ ~escaped
        /\ open_sessions = 0
        /\ ~client

\* batch on an unknown list in verbose mode.
C10_Witness ==
    /\ pc = "done"
    /\ argv.command = "batch"
    /\ argv.verbose
    /\ raised = ListNotFound(<<"a">>)
    /\ exit_status = 1

FailedCalls(calls) == {i \in DOMAIN calls : calls[i].result = None}
DataOps == RemoteItemOps \cup {"load_lists"}

\* C11: a remote call that raises is the last remote call of the operation,
\* and the operation ends with that failure.
C11_NoRetry ==
    \A i \in FailedCalls(last.calls) :
        i = Len(last.calls) /\ last.exc = TransportError

\* add_item whose catalog fetch raised: login, load_lists, nothing more.
C11_Witness ==
    /\ last.op = "add_item"
    /\ Len(last.calls) = 2
    /\ last.calls[2].op = "load_lists"
    /\ last.calls[2].result = None
    /\ last.exc = TransportError

\* C12: a default that is set changes only in a set_default_list call that
\* returns True.
C12_DefaultPersists ==
    [][(default_list_uuid # None /\ default_list_uuid' # default_list_uuid) =>
         (last'.op = "set_default_list" /\ last'.ret = Some(TRUE))]_vars

\* initialize() after cleanup() (a new login, an empty cache) with the
\* default still set.
C12_Witness ==
    /\ last.op = "initialize"
    /\ Len(last.calls) = 1
    /\ last.exc = NoExc
    /\ lists_cache = None
    /\ default_list_uuid # None

ConnectOps == {"initialize", "client.connect"}

\* C13 as stated: the cache starts absent, connecting fetches nothing, and
\* a cached catalog is dropped, replaced or fetched again only by a forced
\* refresh, cleanup() included.
C13_Original ==
    [][/\ last'.op = "__init__" => lists_cache' = None
       /\ last'.op \in ConnectOps =>
             CountLoads(last'.calls) = 0 /\ lists_cache' = lists_cache
       /\ (lists_cache # None /\ last'.op # "none") =>
             ((lists_cache' # lists_cache \/ CountLoads(last'.calls) > 0) =>
                 (last'.op = "client.get_lists" /\ last'.force))]_vars

\* C13 amended: the same, except that cleanup() discards the client together
\* with its cached catalog, so that the next catalog access fetches again.
C13_Amended ==
    [][/\ last'.op = "__init__" => lists_cache' = None
       /\ last'.op \in ConnectOps =>
             CountLoads(last'.calls) = 0 /\ lists_cache' = lists_cache
       /\ (lists_cache # None /\ last'.op # "none") =>
             /\ CountLoads(last'.calls) > 0 =>
                   (last'.op = "client.get_lists" /\ last'.force)
             /\ lists_cache' # lists_cache =>
                   \/ last'.op = "client.get_lists" /\ last'.force
                   \/ last'.op = "cleanup" /\ lists_cache' = None
       /\ (lists_cache = None /\ last'.op \in {"get_lists", "find_list"}
              /\ AllCallsOk(last'.calls)) =>
             CountLoads(last'.calls) = 1 /\ lists_cache' # None]_vars

\* get_lists() logs in and fetches although a default list, hence a cached
\* catalog, existed before: the client was cleaned up in between.
C13_Witness ==
    /\ last.op = "get_lists"
    /\ Len(last.calls) = 2
    /\ last.calls[2].op = "load_lists"
    /\ last.exc = NoExc
    /\ default_list_uuid # None

\* What C14 asks of an item operation called with the name n.
ResolveThenAct(call, cache, n) ==
    LET I == ItemCalls(call.calls)
        M == IF cache = None THEN {} ELSE MatchIndexes(Value(cache), n)
    IN /\ Cardinality(I) <= 1
       /\ \A i \in I :
             /\ i = Len(call.calls)
             /\ M # {}
             /\ call.calls[i].arg = Some(Value(cache)[Least(M)].listUuid)
       /\ call.exc = NoExc => I # {}

\* C14 as stated: an item operation called with a list name issues its item
\* call last, with the identifier of the first entry matching the name up
\* to case, and issues none when resolution fails.
C14_Original ==
    (last.op \in ItemOps /\ last.name # None) =>
        ResolveThenAct(last, lists_cache, Value(last.name))

\* C14 amended: the same for a non-empty list name.
C14_Amended ==
    (last.op \in ItemOps /\ last.name # None /\ Value(last.name) # EmptyStr) =>
        ResolveThenAct(last, lists_cache, Value(last.name))

\* complete_item by a name in another case, on a fresh object: login,
\* load_lists, then complete_item on the first of two matching entries.
C14_Witness ==
    /\ last.op = "complete_item"
    /\ last.name = Some(<<"a", "b">>)
    /\ Len(last.calls) = 3
    /\ last.calls[3].op = "complete_item"
    /\ Cardinality(MatchIndexes(Value(lists_cache), <<"a", "b">>)) = 2
    /\ last.calls[3].arg = Some(Value(lists_cache)[1].listUuid)

\* C17: every remote data call is issued on a session whose login has
\* completed.
C17_DataCallsAuthenticated ==
    \A i \in DOMAIN last.calls :
        last.calls[i].op \in DataOps => last.calls[i].authed

\* What the operation had fetched itself before one of its calls raised.
FetchedBefore(calls) ==
    {Some(ResponseGetLists(Value(calls[i].result))) :
        i \in {j \in DOMAIN calls : calls[j].op = "load_lists" /\ calls[j].result # None}}

ResolverOps ==
    ItemOps \cup {"get_lists", "find_list", "set_default_list",
                  "client.get_lists", "client.get_list_by_name"}

\* C18 as stated: when a remote call of get_lists, find_list,
\* set_default_list or an item operation raises, cache and default are what
\* they were before the operation.
C18_Original ==
    [][(last'.op \in ResolverOps /\ FailedCalls(last'.calls) # {}) =>
         /\ default_list_uuid' = default_list_uuid
         /\ lists_cache' = lists_cache]_vars

\* C18 amended: the default is what it was; the cache is what it was, except
\* that an item operation whose catalog fetch succeeded before its item call
\* raised keeps the catalog it fetched.
C18_Amended ==
    [][(last'.op \in ResolverOps /\ FailedCalls(last'.calls) # {}) =>
         /\ default_list_uuid' = default_list_uuid
         /\ \/ lists_cache' = lists_cache
            \/ /\ last'.op \in ItemOps
               /\ lists_cache = None
               /\ last'.calls[Len(last'.calls)].op \in RemoteItemOps
               /\ lists_cache' \in FetchedBefore(last'.calls)]_vars

\* A forced refresh failed and the one-entry catalog is still cached.
C18_Witness ==
    /\ last.op = "client.get_lists"
    /\ last.force
    /\ last.exc = TransportError
    /\ lists_cache # None
    /\ Len(Value(lists_cache)) = 1

BatchCalls(calls) == {i \in DOMAIN calls : calls[i].op = "batch_update_list"}

\* The entry the claim describes for a string or a record.
EntryOf(item) ==
    IF item.type = "str"
    THEN [itemId |-> item.value, spec |-> None]
    ELSE [itemId |-> IF item.name # None THEN item.name ELSE item.itemId,
          spec |-> IF item.spec # None THEN item.spec
                   ELSE IF item.specification # None THEN item.specification
                   ELSE Some(EmptyStr)]

\* The batch has one entry per item of the input, in input order.
EntryPerItem(batch, items) ==
    /\ Len(batch) = Len(items)
    /\ \A k \in DOMAIN items : batch[k] = EntryOf(items[k])

Kept(item) == item.type \in {"str", "dict"}

\* C16 as stated: every add_items call issues exactly one batch call, whose
\* batch has one entry per input item, in input order.
C16_Original ==
    last.op = "add_items" =>
        /\ Cardinality(BatchCalls(last.calls)) = 1
        /\ \A i \in BatchCalls(last.calls) :
              EntryPerItem(Value(last.calls[i].items), last.args[1])

\* C16 amended: an add_items call issues at most one batch call, exactly one
\* when it connects and resolves its list and none otherwise; the batch has
\* one entry per input item that is a string or a record, in input order,
\* any other item being left out.
C16_Amended ==
    last.op = "add_items" =>
        LET B == BatchCalls(last.calls)
            kept == SelectSeq(last.args[1], Kept)
        IN /\ Cardinality(B) <= 1
           /\ last.exc = NoExc => B # {}
           /\ last.exc.type = "ValueError" => B = {}
           /\ (B = {}) = (last.exc # NoExc /\ ItemCalls(last.calls) = {})
           /\ \A i \in B :
                 /\ i = Len(last.calls)
                 /\ EntryPerItem(Value(last.calls[i].items), kept)
                 /\ (\A k \in DOMAIN last.args[1] : Kept(last.args[1][k])) =>
                       Len(Value(last.calls[i].items)) = Len(last.args[1])

\* A record without name and spec keys, then a string: the batch is sent and
\* holds the record's itemId and specification, then the string.
C16_Witness ==
    /\ last.op = "add_items"
    /\ last.exc = NoExc
    /\ last.args[1] = <<DictItem(None, Some(<<"i">>), None, Some(<<"t">>)),
                        StrItem(<<"m">>)>>
    /\ \E i \in BatchCalls(last.calls) :
          Value(last.calls[i].items) =
              <<[itemId |-> Some(<<"i">>), spec |-> Some(<<"t">>)],
                [itemId |-> Some(<<"m">>), spec |-> None]>>

\* C15: the cache holds the catalog of whichever response arrived last;
\* nothing keeps a second task from fetching while a first fetch is in
\* flight.
C15_LastResponseWins == lists_cache = last_response

\* Two calls without force refresh have both returned, two load_lists calls
\* were issued, and the second response replaced a different cached catalog.
C15_Witness ==
    /\ \A t \in Tasks : task[t].pc = "done" /\ ~task[t].force
    /\ fetches >= 2
    /\ overwritten
    /\ lists_cache = last_response

====
